---- MODULE Spec2Model ----
(***************************************************************************)
(* Model of the Fileserver client (src/client.py): a watchdog observer     *)
(* whose handlers mirror a local directory tree onto an FTP server         *)
(* (src/server.py) over one ftplib session.                                *)
(*                                                                         *)
(* Paths are sequences of one-character strings ("a", "/", "c"), so that   *)
(* the client's slicing of absolute paths is modelled as the slicing it    *)
(* is.  A tree maps every relative path of the universe to an entry.       *)
(***************************************************************************)
EXTENDS Naturals, Sequences, FiniteSets, TLC

\* ------------------------------------------------------------------ bounds

\* File contents are 0 (an empty file) .. MaxContent.
MaxContent == 1
\* Events the observer's queue holds at most (watchdog's queue is unbounded).
MaxQueue == 2
\* Local mutations performed after the client started.
MaxMut == 2
\* Entries of each starting tree (local and remote).
MaxInit == 2

Contents == 0..MaxContent

\* ------------------------------------------------------------------- paths

Sep == "/"

\* The directory the local tree lives in.
RootDir == <<"r">>

\* The forms in which argv[-1] may name that directory: without a trailing
\* separator (as the test harness passes it) and with one.
RootForms == {RootDir, RootDir \o <<Sep>>}

\* The relative paths of the universe: two top-level names, one child name.
Paths == { <<"a">>, <<"b">>, <<"a", "/", "c">>, <<"b", "/", "c">> }

\* os.path.join(a, b) for a relative b.
Join(a, b) ==
    IF a = <<>> THEN b
    ELSE IF a[Len(a)] = Sep THEN a \o b
    ELSE a \o <<Sep>> \o b

\* full_path[len(client_path) + 1:], where client_path (a variable of the
\* model, declared here) is argv[-1] as the process was given it.
VARIABLE client_path

Relative(full) == SubSeq(full, Len(client_path) + 2, Len(full))

\* The path below RootDir that the operating system resolves an absolute path to.
Resolve(full) == SubSeq(full, Len(RootDir) + 2, Len(full))

\* The absolute path watchdog and os.walk report for a relative path.
Abs(p) == Join(client_path, p)

Parent(p) == IF Len(p) <= 2 THEN <<>> ELSE SubSeq(p, 1, Len(p) - 2)

Name(p) == <<p[Len(p)]>>

\* q is s or lies below s.
IsUnder(q, s) ==
    \/ q = s
    \/ /\ Len(q) > Len(s) + 1
       /\ SubSeq(q, 1, Len(s) + 1) = s \o <<Sep>>

\* q, which is s or below s, carried along when s becomes d.
Rebase(q, s, d) == d \o SubSeq(q, Len(s) + 1, Len(q))

\* ------------------------------------------------------------------- trees

Absent == [kind |-> "none", data |-> 0]
DirEntry == [kind |-> "dir", data |-> 0]
File(c) == [kind |-> "file", data |-> c]

Entries == {Absent, DirEntry} \cup {File(c) : c \in Contents}

\* The entry at p; the root is a directory, what lies outside the universe is absent.
Entry(t, p) ==
    IF p = <<>> THEN DirEntry
    ELSE IF p \in Paths THEN t[p]
    ELSE Absent

Exists(t, p) == Entry(t, p).kind # "none"

ParentIsDir(t, p) == Entry(t, Parent(p)).kind = "dir"

IsEmptyDir(t, p) ==
    /\ Entry(t, p).kind = "dir"
    /\ \A q \in Paths : Parent(q) = p => t[q] = Absent

WellFormed(t) == \A p \in Paths : t[p] # Absent => ParentIsDir(t, p)

Size(t) == Cardinality({p \in Paths : t[p] # Absent})

Trees == {t \in [Paths -> Entries] : WellFormed(t)}

InitTrees == {t \in Trees : Size(t) <= MaxInit}

\* ------------------------------------------------ filesystem primitives
\* Each returns [ok, tree]: ok is FALSE when the call fails (the tree is
\* then unchanged).  The FTP server applies them to the remote tree; the
\* local mutations apply them to the local tree.

Failed(t) == [ok |-> FALSE, tree |-> t]
Done(t) == [ok |-> TRUE, tree |-> t]

FsMkdir(t, p) ==
    IF p \in Paths /\ ~Exists(t, p) /\ ParentIsDir(t, p)
    THEN Done([t EXCEPT ![p] = DirEntry])
    ELSE Failed(t)

FsWrite(t, p, c) ==
    IF p \in Paths /\ Entry(t, p).kind # "dir" /\ ParentIsDir(t, p)
    THEN Done([t EXCEPT ![p] = File(c)])
    ELSE Failed(t)

FsRmdir(t, p) ==
    IF p \in Paths /\ IsEmptyDir(t, p)
    THEN Done([t EXCEPT ![p] = Absent])
    ELSE Failed(t)

FsUnlink(t, p) ==
    IF p \in Paths /\ Entry(t, p).kind = "file"
    THEN Done([t EXCEPT ![p] = Absent])
    ELSE Failed(t)

FsRenameOk(t, s, d) ==
    /\ s \in Paths /\ d \in Paths
    /\ Exists(t, s)
    /\ ParentIsDir(t, d)
    /\ (s # d => ~IsUnder(d, s))
    /\ IF Entry(t, s).kind = "file"
       THEN Entry(t, d).kind # "dir"
       ELSE ~Exists(t, d) \/ IsEmptyDir(t, d)

FsRename(t, s, d) ==
    IF ~FsRenameOk(t, s, d) THEN Failed(t)
    ELSE IF s = d THEN Done(t)
    ELSE Done([q \in Paths |->
                 IF IsUnder(q, d) THEN Entry(t, Rebase(q, d, s))
                 ELSE IF IsUnder(q, s) THEN Absent
                 ELSE t[q]])

\* ------------------------------------------------------------ FTP server
\* pyftpdlib serves the remote tree with every permission granted
\* (perm='elradfmwMT'), so a command fails only when the filesystem call
\* behind it fails; ftplib raises error_perm on the 550 reply.

FtpMkd(t, p) == FsMkdir(t, p)

FtpStor(t, p, c) == FsWrite(t, p, c)

FtpRmd(t, p) == FsRmdir(t, p)

FtpDelete(t, p) == FsUnlink(t, p)

FtpRename(t, s, d) == FsRename(t, s, d)

\* SIZE answers for a regular file only.
FtpSize(t, p) == IF Entry(t, p).kind = "file" THEN Done(t) ELSE Failed(t)

\* open(path, 'rb') on the local tree: succeeds on a regular file.
CanOpen(loc, full) == Entry(loc, Resolve(full)).kind = "file"

ReadFile(loc, full) == Entry(loc, Resolve(full)).data

\* ----------------------------------------------------------- initial_sync

PathSeq == << <<"a">>, <<"b">>, <<"a", "/", "c">>, <<"b", "/", "c">> >>

\* The orders in which a directory listing may return its entries.
Orders ==
    {o \in [1..Len(PathSeq) -> Paths] :
        \A i, j \in 1..Len(PathSeq) : i # j => o[i] # o[j]}

\* The entries of one kind in directory top (an absolute path), as
\* os.walk lists them under listing order ord.
ListDir(t, top, kind, ord) ==
    LET here == Resolve(top)
        Test(q) == Parent(q) = here /\ t[q].kind = kind
    IN  SelectSeq(ord, Test)

MkdCmd(top, q) ==
    LET full_path == Join(top, Name(q))
    IN  [op |-> "MKD", path |-> Relative(full_path), full |-> full_path]

StorCmd(top, q) ==
    LET full_path == Join(top, Name(q))
    IN  [op |-> "STOR", path |-> Relative(full_path), full |-> full_path]

\* Walk visiting the sub-directories of a directory before it issues the
\* commands of the directory itself (walk(client_path, topdown=False)).
RECURSIVE Walk_bottom_up(_, _, _)
Walk_bottom_up(t, top, ord) ==
    LET dirs == ListDir(t, top, "dir", ord)
        files == ListDir(t, top, "file", ord)
        mk == [i \in 1..Len(dirs) |-> MkdCmd(top, dirs[i])]
        st == [i \in 1..Len(files) |-> StorCmd(top, files[i])]
        RECURSIVE Below(_)
        Below(i) ==
            IF i > Len(dirs) THEN <<>>
            ELSE Walk_bottom_up(t, Join(top, Name(dirs[i])), ord) \o Below(i + 1)
    IN  Below(1) \o mk \o st

\* The commands the loop over walk(client_path) issues, in order: for each
\* directory visited, top-down, mkd of its sub-directories, then STOR of
\* its files, then the sub-directories in turn.
RECURSIVE Walk(_, _, _)
Walk(t, top, ord) ==
    LET dirs == ListDir(t, top, "dir", ord)
        files == ListDir(t, top, "file", ord)
        mk == [i \in 1..Len(dirs) |-> MkdCmd(top, dirs[i])]
        st == [i \in 1..Len(files) |-> StorCmd(top, files[i])]
        RECURSIVE Below(_)
        Below(i) ==
            IF i > Len(dirs) THEN <<>>
            ELSE Walk(t, Join(top, Name(dirs[i])), ord) \o Below(i + 1)
    IN  mk \o st \o Below(1)

ApplyCmd(loc, rem, cmd) ==
    IF cmd.op = "MKD" THEN FtpMkd(rem, cmd.path)
    ELSE IF ~CanOpen(loc, cmd.full) THEN Failed(rem)
    ELSE FtpStor(rem, cmd.path, ReadFile(loc, cmd.full))

\* The commands in order; the first failure raises out of initial_sync.
\* sent is the commands that reached the session, the failing one included
\* (a STOR whose local file cannot be opened is never sent).
RECURSIVE RunCmds(_, _, _)
RunCmds(loc, rem, cmds) ==
    IF cmds = <<>> THEN [ok |-> TRUE, tree |-> rem, sent |-> <<>>]
    ELSE LET cmd == Head(cmds)
             r == ApplyCmd(loc, rem, cmd)
             opened == cmd.op = "MKD" \/ CanOpen(loc, cmd.full)
         IN  IF r.ok
             THEN LET rest == RunCmds(loc, r.tree, Tail(cmds))
                  IN  [rest EXCEPT !.sent = <<cmd>> \o @]
             ELSE [ok |-> FALSE, tree |-> rem,
                   sent |-> IF opened THEN <<cmd>> ELSE <<>>]

initial_sync(loc, rem, ord) == RunCmds(loc, rem, Walk(loc, client_path, ord))

\* ---------------------------------------------------------------- events

\* A watchdog event.  data is the content the mutation behind the event
\* wrote (history only: no handler reads it).
Event(kind, src, dst, isdir, c) ==
    [kind |-> kind, src_path |-> src, dest_path |-> dst,
     is_directory |-> isdir, data |-> c]

NoEvent == Event("none", <<>>, <<>>, FALSE, 0)

\* ---------------------------------------------------------------- handlers
\* Each returns the remote tree it leaves, how it ended: "applied" (the
\* command succeeded), "ignored" (no command), "fallback" (rename failed
\* and the handler returned normally), "raised" (an exception left the
\* handler), and the commands it sent on the session, in order.

Cmd(op, path, to) == [op |-> op, path |-> path, to |-> to]

Outcome(rem, result, sent) == [remote |-> rem, result |-> result, sent |-> sent]

Applied(r, sent) == Outcome(r.tree, IF r.ok THEN "applied" ELSE "raised", sent)

on_created(event, loc, rem) ==
    LET path == Relative(event.src_path)
    IN  IF event.is_directory
        THEN Applied(FtpMkd(rem, path), <<Cmd("MKD", path, <<>>)>>)
        ELSE IF ~CanOpen(loc, event.src_path) THEN Outcome(rem, "raised", <<>>)
        ELSE Applied(FtpStor(rem, path, ReadFile(loc, event.src_path)),
                     <<Cmd("STOR", path, <<>>)>>)

\* on_deleted with the commands of the two kinds exchanged.
on_deleted_swapped(event, loc, rem) ==
    LET path == Relative(event.src_path)
    IN  IF event.is_directory
        THEN Applied(FtpDelete(rem, path), <<Cmd("DELE", path, <<>>)>>)
        ELSE Applied(FtpRmd(rem, path), <<Cmd("RMD", path, <<>>)>>)

on_deleted(event, loc, rem) ==
    LET path == Relative(event.src_path)
    IN  IF event.is_directory
        THEN Applied(FtpRmd(rem, path), <<Cmd("RMD", path, <<>>)>>)
        ELSE Applied(FtpDelete(rem, path), <<Cmd("DELE", path, <<>>)>>)

\* on_modified storing the content the event carried when it was queued,
\* in place of the file's content when the handler runs.
on_modified_at_enqueue(event, loc, rem) ==
    LET path == Relative(event.src_path)
    IN  IF ~event.is_directory
        THEN IF ~CanOpen(loc, event.src_path) THEN Outcome(rem, "raised", <<>>)
             ELSE Applied(FtpStor(rem, path, event.data),
                          <<Cmd("STOR", path, <<>>)>>)
        ELSE Outcome(rem, "ignored", <<>>)

on_modified(event, loc, rem) ==
    LET path == Relative(event.src_path)
    IN  IF ~event.is_directory
        THEN IF ~CanOpen(loc, event.src_path) THEN Outcome(rem, "raised", <<>>)
             ELSE Applied(FtpStor(rem, path, ReadFile(loc, event.src_path)),
                          <<Cmd("STOR", path, <<>>)>>)
        ELSE Outcome(rem, "ignored", <<>>)

\* on_moved renaming from the destination to the source.
on_moved_swapped(event, loc, rem) ==
    LET src_path == Relative(event.src_path)
        dst_path == Relative(event.dest_path)
        r == FtpRename(rem, dst_path, src_path)
        rename == Cmd("RENAME", dst_path, src_path)
        size == Cmd("SIZE", dst_path, <<>>)
    IN  IF r.ok THEN Outcome(r.tree, "applied", <<rename>>)
        ELSE IF ~event.is_directory
             THEN IF FtpSize(rem, dst_path).ok
                  THEN Outcome(rem, "fallback", <<rename, size>>)
                  ELSE Outcome(rem, "raised", <<rename, size>>)
             ELSE Outcome(rem, "fallback", <<rename>>)

\* on_moved without its except branch: a failed rename raises.
on_moved_no_fallback(event, loc, rem) ==
    LET src_path == Relative(event.src_path)
        dst_path == Relative(event.dest_path)
        r == FtpRename(rem, src_path, dst_path)
        rename == Cmd("RENAME", src_path, dst_path)
    IN  IF r.ok THEN Outcome(r.tree, "applied", <<rename>>)
        ELSE Outcome(rem, "raised", <<rename>>)

on_moved(event, loc, rem) ==
    LET src_path == Relative(event.src_path)
        dst_path == Relative(event.dest_path)
        r == FtpRename(rem, src_path, dst_path)
        rename == Cmd("RENAME", src_path, dst_path)
        size == Cmd("SIZE", dst_path, <<>>)
    IN  IF r.ok THEN Outcome(r.tree, "applied", <<rename>>)
        ELSE IF ~event.is_directory
             THEN IF FtpSize(rem, dst_path).ok
                  THEN Outcome(rem, "fallback", <<rename, size>>)
                  ELSE Outcome(rem, "raised", <<rename, size>>)
             ELSE Outcome(rem, "fallback", <<rename>>)

\* ----------------------------------------------------------------- state

VARIABLES
    local,      \* the tree under the client root
    remote,     \* the tree the FTP server serves
    queue,      \* the observer's event queue, oldest event first
    pc,         \* the main thread: "start", "synced", "running", "crashed"
    observer,   \* the observer thread: "none", "running", "dead"
    last,       \* the event handled last and how its handler ended
    nmut,       \* local mutations performed so far
    insync,     \* whether the trees were equal when the observer started
    issued,     \* the commands initial_sync sent, in order
    synced      \* whether the trees were equal when initial_sync returned

vars == <<client_path, local, remote, queue, pc, observer, last, nmut,
          insync, issued, synced>>

NoResult == [event |-> NoEvent, result |-> "none", sent |-> <<>>]

\* The state in which nothing has run yet, for a given root argument.
Started(root) ==
    /\ client_path = root
    /\ local \in InitTrees
    /\ remote \in InitTrees
    /\ queue = <<>>
    /\ pc = "start"
    /\ observer = "none"
    /\ last = NoResult
    /\ nmut = 0
    /\ insync = FALSE
    /\ issued = <<>>
    /\ synced = FALSE

\* The client process has been started on some local tree against some
\* remote tree; nothing has run yet.
Init == Started(RootDir)

\* ------------------------------------------------------------ main thread

\* initial_sync(client_path): an exception leaves client() and ends the
\* process before the observer is created.
InitialSync ==
    /\ pc = "start"
    /\ \E ord \in Orders :
          LET r == initial_sync(local, remote, ord)
          IN  /\ remote' = r.tree
              /\ pc' = IF r.ok THEN "synced" ELSE "crashed"
              /\ issued' = r.sent
              /\ synced' = (r.ok /\ r.tree = local)
    /\ UNCHANGED <<client_path, local, queue, observer, last, nmut, insync>>

\* my_observer.schedule(...); my_observer.start()
StartObserver ==
    /\ pc = "synced"
    /\ pc' = "running"
    /\ observer' = "running"
    /\ insync' = (local = remote)
    /\ UNCHANGED <<client_path, local, remote, queue, last, nmut, issued,
                   synced>>

\* ------------------------------------------------------- local mutations
\* What a user or a test does to the local tree while the client runs,
\* with the events watchdog queues for it once the observer is started
\* (before that, the change goes unobserved).

\* Mutate with the new events put ahead of the events already queued.
Mutate_ahead(r, events) ==
    /\ pc \in {"synced", "running"}
    /\ nmut < MaxMut
    /\ r.ok
    /\ Len(queue) + Len(events) <= MaxQueue
    /\ local' = r.tree
    /\ queue' = IF observer = "none" THEN queue ELSE events \o queue
    /\ nmut' = nmut + 1
    /\ UNCHANGED <<client_path, remote, pc, observer, last, insync, issued,
                   synced>>

Mutate(r, events) ==
    /\ pc \in {"synced", "running"}
    /\ nmut < MaxMut
    /\ r.ok
    /\ Len(queue) + Len(events) <= MaxQueue
    /\ local' = r.tree
    /\ queue' = IF observer = "none" THEN queue ELSE queue \o events
    /\ nmut' = nmut + 1
    /\ UNCHANGED <<client_path, remote, pc, observer, last, insync, issued,
                   synced>>

\* open(p, "w") of a file that does not exist: an empty file appears.
Creat(p) ==
    /\ ~Exists(local, p)
    /\ Mutate(FsWrite(local, p, 0),
              <<Event("created", Abs(p), <<>>, FALSE, 0)>>)

\* write and close of an existing file.
WriteFile(p, c) ==
    /\ Entry(local, p).kind = "file"
    /\ Mutate(FsWrite(local, p, c),
              <<Event("modified", Abs(p), <<>>, FALSE, c)>>)

Mkdir(p) ==
    Mutate(FsMkdir(local, p), <<Event("created", Abs(p), <<>>, TRUE, 0)>>)

Remove(p) ==
    Mutate(FsUnlink(local, p), <<Event("deleted", Abs(p), <<>>, FALSE, 0)>>)

Rmdir(p) ==
    Mutate(FsRmdir(local, p), <<Event("deleted", Abs(p), <<>>, TRUE, 0)>>)

\* The events watchdog generates for what lay below a moved directory,
\* after the event of the directory itself.
SubMoved(t, s, d) ==
    LET Test(q) == q # s /\ IsUnder(q, s) /\ Exists(t, q)
        below == SelectSeq(PathSeq, Test)
    IN  [i \in 1..Len(below) |->
            Event("moved", Abs(below[i]), Abs(Rebase(below[i], s, d)),
                  t[below[i]].kind = "dir", 0)]

\* rename(s, d) inside the root; what lies below s stays in the universe.
Rename(s, d) ==
    /\ s # d
    /\ \A q \in Paths :
          IsUnder(q, s) /\ Exists(local, q) => Rebase(q, s, d) \in Paths
    /\ Mutate(FsRename(local, s, d),
              <<Event("moved", Abs(s), Abs(d), Entry(local, s).kind = "dir", 0)>>
                  \o SubMoved(local, s, d))

\* rename(s, somewhere outside the root): the entry and what lies below it
\* leave the local tree; watchdog sees the entry leave and queues a Deleted
\* event for it alone.
MoveOut(p) ==
    /\ Exists(local, p)
    /\ Mutate(Done([q \in Paths |-> IF IsUnder(q, p) THEN Absent ELSE local[q]]),
              <<Event("deleted", Abs(p), <<>>, Entry(local, p).kind = "dir", 0)>>)

\* The Created events watchdog generates for what lies below a directory
\* that arrived in the root, top-down, after the event of the directory.
SubCreated(t, p) ==
    LET Test(q) == q # p /\ IsUnder(q, p) /\ Exists(t, q)
        below == SelectSeq(PathSeq, Test)
    IN  [i \in 1..Len(below) |->
            Event("created", Abs(below[i]), <<>>, t[below[i]].kind = "dir",
                  t[below[i]].data)]

\* rename(somewhere outside the root, p): a directory arrives at p, with
\* entry child under each name it holds.
MoveIn(p, child) ==
    LET arrived == [q \in Paths |->
                      IF q = p THEN DirEntry
                      ELSE IF Parent(q) = p THEN child
                      ELSE local[q]]
    IN  /\ ~Exists(local, p)
        /\ ParentIsDir(local, p)
        /\ Mutate(Done(arrived),
                  <<Event("created", Abs(p), <<>>, TRUE, 0)>>
                      \o SubCreated(arrived, p))

\* A change of a directory's own metadata (its entries or times changed).
Touch(p) ==
    /\ observer # "none"
    /\ Entry(local, p).kind = "dir"
    /\ Mutate(Done(local), <<Event("modified", Abs(p), <<>>, TRUE, 0)>>)

\* -------------------------------------------------------- observer thread
\* The observer thread takes the oldest event and calls its handler.  An
\* exception that leaves the handler leaves the thread's run loop: the
\* thread ends, the main thread sleeps on, and no later event is handled.

\* A path the model can follow on the server: one of the universe, or the
\* empty path, which the server refuses in every command.
Known(p) == p = <<>> \/ p \in Paths

Dispatch(kind, out) ==
    /\ observer = "running"
    /\ queue # <<>>
    /\ Head(queue).kind = kind
    /\ \A i \in 1..Len(out.sent) :
          Known(out.sent[i].path) /\ Known(out.sent[i].to)
    /\ remote' = out.remote
    /\ queue' = Tail(queue)
    /\ last' = [event |-> Head(queue), result |-> out.result,
                sent |-> out.sent]
    /\ observer' = IF out.result = "raised" THEN "dead" ELSE "running"
    /\ UNCHANGED <<client_path, local, pc, nmut, insync, issued, synced>>

OnCreated == Dispatch("created", on_created(Head(queue), local, remote))

OnDeleted == Dispatch("deleted", on_deleted(Head(queue), local, remote))

OnModified == Dispatch("modified", on_modified(Head(queue), local, remote))

\* The remote tree is followed inside the universe of paths only: a rename
\* that would carry an entry out of it is not explored.
InUniverse(event, rem) ==
    LET s == Relative(event.src_path)
        d == Relative(event.dest_path)
    IN  FsRenameOk(rem, s, d)
            => \A q \in Paths :
                  IsUnder(q, s) /\ Exists(rem, q) => Rebase(q, s, d) \in Paths

OnMoved ==
    /\ Dispatch("moved", on_moved(Head(queue), local, remote))
    /\ InUniverse(Head(queue), remote)

Next ==
    \/ InitialSync
    \/ StartObserver
    \/ \E p \in Paths : Creat(p)
    \/ \E p \in Paths, c \in Contents : WriteFile(p, c)
    \/ \E p \in Paths : Mkdir(p)
    \/ \E p \in Paths : Remove(p)
    \/ \E p \in Paths : Rmdir(p)
    \/ \E s, d \in Paths : Rename(s, d)
    \/ \E p \in Paths : Touch(p)
    \/ OnCreated
    \/ OnDeleted
    \/ OnModified
    \/ OnMoved

Spec == Init /\ [][Next]_vars

TypeOK ==
    /\ local \in Trees
    /\ remote \in Trees
    /\ Len(queue) <= MaxQueue

\* ------------------------------------------------- delivery in any order
\* The observer interface promises no order of delivery: a second
\* specification lets two neighbouring queued events change places.

Reorder ==
    /\ observer = "running"
    /\ \E i \in 1..(Len(queue) - 1) :
          queue' = [queue EXCEPT ![i] = queue[i + 1], ![i + 1] = queue[i]]
    /\ UNCHANGED <<client_path, local, remote, pc, observer, last, nmut,
                   insync, issued, synced>>

NextAnyOrder == Next \/ Reorder

SpecAnyOrder == Init /\ [][NextAnyOrder]_vars

\* ------------------------------------------------------------ properties

\* No handler will run any more: nothing is queued, or the thread ended.
Stopped == observer # "none" /\ (queue = <<>> \/ observer = "dead")

IsPut(e) == e.kind \in {"created", "modified"} /\ ~e.is_directory

Mentions(e, p) ==
    \/ Relative(e.src_path) = p
    \/ e.kind = "moved" /\ Relative(e.dest_path) = p

\* The step in which the observer thread handles the oldest event.
Handling(kind) ==
    /\ observer = "running"
    /\ queue # <<>>
    /\ Head(queue).kind = kind
    /\ queue' = Tail(queue)
    /\ last'.event = Head(queue)

\* C1 (convergence): when the observer started on equal trees and no
\* handler can run any more, the remote tree equals the local tree.
C1_Convergence == (insync /\ Stopped) => remote = local

\* C2 (initial reconciliation): once initial_sync has completed, and before
\* anything else happened, the remote tree equals the local tree.
C2_InitialReconciliation == (pc = "synced" /\ nmut = 0) => remote = local

\* C3 (last writer wins): a store that is applied leaves on the remote the
\* content the local file has at that moment; and when no later queued
\* event mentions the path, that is the content written by the mutation
\* behind the event (the store of the second of two writes leaves the
\* second write's content).
C3_LastWriterWins ==
    [][(Handling("created") \/ Handling("modified"))
         /\ IsPut(Head(queue)) /\ last'.result = "applied"
       => LET e == Head(queue)
              p == Relative(e.src_path)
          IN  /\ remote'[p] = File(local[p].data)
              /\ (\A i \in 2..Len(queue) : ~Mentions(queue[i], p))
                    => remote'[p] = File(e.data)]_vars

\* Two stores of one path were queued with different written contents, the
\* first has been applied while the second is still queued, and the remote
\* already holds the second write's content.
C3_Witness ==
    /\ last.result = "applied"
    /\ IsPut(last.event)
    /\ queue # <<>>
    /\ IsPut(Head(queue))
    /\ Head(queue).src_path = last.event.src_path
    /\ Head(queue).data # last.event.data
    /\ remote[Relative(last.event.src_path)] = File(Head(queue).data)

\* C4 (directory ordering): the remote never holds an entry whose parent is
\* not a directory; and when the Created event of a file in a directory
\* has been handled and no handler can run any more, the remote holds the
\* file, in whatever order the events of the directory and of the file
\* were delivered.
C4_DirectoryOrdering ==
    /\ \A p \in Paths : Exists(remote, p) => ParentIsDir(remote, p)
    /\ LET p == Relative(last.event.src_path)
       IN  ( /\ insync
             /\ Stopped
             /\ last.event.kind = "created"
             /\ ~last.event.is_directory
             /\ Parent(p) # <<>>
             /\ Entry(local, Parent(p)).kind = "dir"
             /\ Entry(local, p).kind = "file" )
           => Entry(remote, p).kind = "file"

\* C5 (CreateDir is idempotent): a Created event of a directory that the
\* remote already holds as a directory does not end in an exception; and
\* initial_sync fails only where a local and a remote entry of different
\* kinds collide, never on a directory that exists already.
C5_CreateDirIdempotent ==
    /\ ( /\ last.event.kind = "created"
         /\ last.event.is_directory
         /\ Entry(remote, Relative(last.event.src_path)).kind = "dir" )
       => last.result = "applied"
    /\ pc = "crashed"
       => \E p \in Paths :
             /\ Exists(local, p) /\ Exists(remote, p)
             /\ local[p].kind # remote[p].kind

\* C6 (delete is idempotent): a Deleted event whose path is absent from the
\* remote does not end in an exception.
C6_DeleteIdempotent ==
    ( /\ last.event.kind = "deleted"
      /\ ~Exists(remote, Relative(last.event.src_path)) )
    => last.result = "applied"

\* The destination of a move holds what the move was to bring there: for a
\* file the content of the moved local file, for a directory a directory.
Expected(e, loc, rem) ==
    LET d == Relative(e.dest_path)
    IN  IF e.is_directory THEN Entry(rem, d).kind = "dir"
        ELSE Entry(rem, d).kind = "file" /\ Entry(rem, d) = Entry(loc, d)

RenameFails(e, rem) ==
    ~FtpRename(rem, Relative(e.src_path), Relative(e.dest_path)).ok

\* C7 (move fallback success): when the rename of a Moved event fails and
\* the destination already holds the expected content, on_moved returns
\* without raising and leaves the remote tree unchanged.
C7_MoveFallbackSuccess ==
    [][Handling("moved")
         /\ RenameFails(Head(queue), remote)
         /\ Expected(Head(queue), local, remote)
       => last'.result = "fallback" /\ remote' = remote]_vars

\* A file's Moved event ended by the fallback: the rename had failed and
\* the destination holds the content of the moved local file.
C7_Witness ==
    /\ last.event.kind = "moved"
    /\ ~last.event.is_directory
    /\ last.result = "fallback"
    /\ Expected(last.event, local, remote)

\* C8 (move fallback failure): when the rename of a Moved event fails and
\* the destination does not exist on the remote, the handler raises, for a
\* directory as for a file.
C8_MoveFallbackFailure ==
    [][Handling("moved")
         /\ RenameFails(Head(queue), remote)
         /\ ~Exists(remote, Relative(Head(queue).dest_path))
       => last'.result = "raised"]_vars

\* C9 (move fallback verifies content): when the rename of a file's Moved
\* event fails and the destination is a remote file whose content differs
\* from the moved local file's, the handler raises.
C9_MoveFallbackVerifies ==
    [][Handling("moved")
         /\ ~Head(queue).is_directory
         /\ RenameFails(Head(queue), remote)
         /\ Entry(remote, Relative(Head(queue).dest_path)).kind = "file"
         /\ Entry(local, Relative(Head(queue).dest_path)).kind = "file"
         /\ ~Expected(Head(queue), local, remote)
       => last'.result = "raised"]_vars

\* C10 (the engine survives failures): whatever handler raised before, an
\* event in the queue has a running observer thread to handle it.
C10_SurvivesFailures ==
    (observer # "none" /\ queue # <<>>) => observer = "running"

\* --------------------------------------------------- at-least-once delivery
\* The observer interface may deliver an event more than once: a third
\* specification lets the event handled last be delivered again, ahead of
\* everything queued.

Duplicate ==
    /\ observer = "running"
    /\ last.event # NoEvent
    /\ Len(queue) < MaxQueue
    /\ queue' = <<last.event>> \o queue
    /\ UNCHANGED <<client_path, local, remote, pc, observer, last, nmut,
                   insync, issued, synced>>

NextAtLeastOnce == Next \/ Duplicate

SpecAtLeastOnce == Init /\ [][NextAtLeastOnce]_vars

Kinds == {"created", "deleted", "modified", "moved"}

\* The oldest queued event is the event handled last, and what a store
\* would read is what the first delivery stored.
SecondDelivery ==
    /\ queue # <<>>
    /\ Head(queue) = last.event
    /\ IsPut(last.event)
          => LET p == Relative(last.event.src_path)
             IN  Entry(local, p) = Entry(remote, p)

\* C11 (duplicate delivery is harmless): the second of two deliveries in
\* succession of one event ends without an exception and leaves the remote
\* tree as the first delivery left it.
C11_DuplicateHarmless ==
    [][(\E k \in Kinds : Handling(k)) /\ SecondDelivery
       => last'.result # "raised" /\ remote' = remote]_vars

\* --------------------------------------------------------- transport errors
\* A call on the session may fail with a transport error (connection
\* reset, timeout): ftplib raises out of the call and the remote tree is
\* unchanged.  A fourth specification lets the connection fail while a
\* handler runs, so that every call the handler makes raises.

\* What the handler of the event does then: "lost" when the transport
\* exception leaves the handler (for a file's Moved event, as the
\* FileNotFoundError raised after ftp.size failed too), "fallback" when
\* on_moved swallows it.
on_connection_lost(event, loc, rem) ==
    LET path == Relative(event.src_path)
        dst_path == Relative(event.dest_path)
    IN  IF event.kind = "moved"
        THEN IF event.is_directory
             THEN Outcome(rem, "fallback", <<Cmd("RENAME", path, dst_path)>>)
             ELSE Outcome(rem, "lost", <<Cmd("RENAME", path, dst_path),
                                         Cmd("SIZE", dst_path, <<>>)>>)
        ELSE IF event.is_directory
        THEN IF event.kind = "created"
             THEN Outcome(rem, "lost", <<Cmd("MKD", path, <<>>)>>)
             ELSE IF event.kind = "deleted"
             THEN Outcome(rem, "lost", <<Cmd("RMD", path, <<>>)>>)
             ELSE Outcome(rem, "ignored", <<>>)
        ELSE IF event.kind = "deleted"
        THEN Outcome(rem, "lost", <<Cmd("DELE", path, <<>>)>>)
        ELSE IF ~CanOpen(loc, event.src_path) THEN Outcome(rem, "raised", <<>>)
        ELSE Outcome(rem, "lost", <<Cmd("STOR", path, <<>>)>>)

ConnectionLost ==
    /\ observer = "running"
    /\ queue # <<>>
    /\ LET out == on_connection_lost(Head(queue), local, remote)
       IN  /\ out.sent # <<>>
           /\ last' = [event |-> Head(queue), result |-> out.result,
                       sent |-> out.sent]
           /\ observer' = IF out.result = "lost" THEN "dead" ELSE "running"
    /\ queue' = Tail(queue)
    /\ UNCHANGED <<client_path, local, remote, pc, nmut, insync, issued,
                   synced>>

NextTransport == Next \/ ConnectionLost

SpecTransport == Init /\ [][NextTransport]_vars

\* How many times the first command of a handler run was sent in that run.
Attempts(sent) == Cardinality({i \in 1..Len(sent) : sent[i] = sent[1]})

\* C12 (bounded retry): an operation ends on a transport error only after
\* its command has been attempted again.
C12_BoundedRetry == last.result = "lost" => Attempts(last.sent) > 1

\* ----------------------------------------------------------------- fairness
\* The main thread runs on to initial_sync and to the observer's start, and
\* the observer thread, while it lives, handles what is queued.

Handle == OnCreated \/ OnDeleted \/ OnModified \/ OnMoved

SpecFair ==
    /\ Spec
    /\ WF_vars(InitialSync)
    /\ WF_vars(StartObserver)
    /\ WF_vars(Handle)

\* C13 (recovery by reconciliation): after a handler has ended in an
\* exception (the observer having started on equal trees), the main thread
\* eventually comes back to where it runs initial_sync, or the remote tree
\* equals the local tree again.
C13_RecoveryByReconciliation ==
    (insync /\ last.result = "raised") ~> (pc = "start" \/ remote = local)

\* Something lies below directory s in tree t.
HasBelow(t, s) == \E q \in Paths : q # s /\ IsUnder(q, s) /\ Exists(t, q)

\* The step carried what the remote held at and below s to d.
Relocated(s, d) ==
    /\ \A q \in Paths :
          IsUnder(q, s) /\ Exists(remote, q)
             => Entry(remote', Rebase(q, s, d)) = Entry(remote, q)
    /\ \A q \in Paths : IsUnder(q, s) => ~Exists(remote', q)

NextBoundary ==
    \/ Next
    \/ \E p \in Paths : MoveOut(p)
    \/ \E p \in Paths, child \in Entries : MoveIn(p, child)

SpecBoundary == Init /\ [][NextBoundary]_vars

\* C15 (moves across the root boundary converge), the observer having
\* started on equal trees: when the Deleted event of an entry that is gone
\* from the local tree has been handled and no handler can run any more,
\* the remote holds nothing at or under its path; and when the Created
\* event of an entry has been handled, no handler raised and none can run
\* any more, the remote holds the entry as the local tree does.
C15_RootBoundaryMoves ==
    LET p == Relative(last.event.src_path)
    IN  /\ ( /\ insync /\ Stopped
             /\ last.event.kind = "deleted"
             /\ ~Exists(local, p) )
           => \A q \in Paths : IsUnder(q, p) => ~Exists(remote, q)
        /\ ( /\ insync /\ Stopped /\ observer = "running"
             /\ last.event.kind = "created" )
           => Entry(remote, p) = Entry(local, p)

\* C16 (start-up order with no lost change): a handler has run only once
\* initial_sync had returned and the observer was started; and when
\* initial_sync left the trees equal, the observer runs, nothing is queued
\* and no handler has run yet, the trees are still equal: no mutation made
\* since the process started has gone unseen.
C16_StartupOrderNoLostChange ==
    /\ last.result # "none" => pc = "running"
    /\ (synced /\ observer = "running" /\ queue = <<>> /\ last.result = "none")
          => remote = local

\* The commands among sent that change the remote tree.
Mutating(sent) ==
    LET Test(c) == c.op # "SIZE"
    IN  SelectSeq(sent, Test)

\* The command the kind of an event and its is_directory flag determine.
TranslationOf(e) ==
    LET path == Relative(e.src_path)
    IN  IF e.kind = "moved"
        THEN <<Cmd("RENAME", path, Relative(e.dest_path))>>
        ELSE IF e.kind = "created"
        THEN <<Cmd(IF e.is_directory THEN "MKD" ELSE "STOR", path, <<>>)>>
        ELSE IF e.kind = "deleted"
        THEN <<Cmd(IF e.is_directory THEN "RMD" ELSE "DELE", path, <<>>)>>
        ELSE IF e.is_directory THEN <<>>
        ELSE <<Cmd("STOR", path, <<>>)>>

\* The step handles an event and sends the command of its kind, and only
\* that one; a directory's Modified event sends none and leaves the remote
\* tree unchanged.
Translated ==
    LET e == Head(queue)
    IN  /\ Mutating(last'.sent) = TranslationOf(e)
        /\ (e.kind = "modified" /\ e.is_directory)
              => last'.sent = <<>> /\ remote' = remote

\* C17 (event translation is a fixed mapping), as stated: every handled
\* event sends exactly the one mutating command its kind and is_directory
\* flag determine.
C17_FixedMapping ==
    [][(\E k \in Kinds : Handling(k)) => Translated]_vars

\* C17, amended: every handled event sends exactly the one mutating command
\* its kind and is_directory flag determine, unless it is the Created or
\* Modified event of a file that cannot be opened any more when the handler
\* runs.
C17_FixedMappingWhenReadable ==
    [][/\ \E k \in Kinds : Handling(k)
       /\ IsPut(Head(queue)) => CanOpen(local, Head(queue).src_path)
       => Translated]_vars

\* A file's Created or Modified event has been handled, and its one
\* command, a STOR of the file's path, was sent and applied.
C17_Witness ==
    /\ IsPut(last.event)
    /\ last.result = "applied"
    /\ last.sent = <<Cmd("STOR", Relative(last.event.src_path), <<>>)>>

\* The step handles the oldest queued event and nothing else leaves the
\* queue.
HandlesOldest ==
    /\ queue # <<>>
    /\ queue' = Tail(queue)
    /\ last'.event = Head(queue)

\* The step queues new events behind the events already queued, and sends
\* no command.
QueuesBehind ==
    /\ Len(queue') > Len(queue)
    /\ SubSeq(queue', 1, Len(queue)) = queue
    /\ last' = last
    /\ remote' = remote

\* C18 (per-path causal order): once the observer runs, the queue changes
\* only by new events joining it at the end or by its oldest event being
\* handled, and commands are sent (the remote tree or the record of the
\* last handler run changes) only in handling the oldest event: the
\* commands of two events are sent in the order in which the events were
\* generated.
C18_CausalOrder ==
    [][/\ queue' # queue => HandlesOldest \/ QueuesBehind
       /\ (observer # "none" /\ (remote' # remote \/ last' # last))
             => HandlesOldest]_vars

\* The Created event of a directory has been applied while an event of a
\* path below it, generated after it, is still queued.
C18_Witness ==
    /\ last.event.kind = "created"
    /\ last.event.is_directory
    /\ last.result = "applied"
    /\ queue # <<>>
    /\ Head(queue).src_path # last.event.src_path
    /\ IsUnder(Relative(Head(queue).src_path), Relative(last.event.src_path))

\* ------------------------------------------------ initial_sync, deep trees
\* The walk of initial_sync on local trees three levels deep, with two
\* names at every level: a specification of its own, in which the remote
\* tree plays no part and the only step is the walk.

DeepSeq ==
    << <<"a">>, <<"b">>, <<"a", "/", "a">>, <<"a", "/", "b">>,
       <<"a", "/", "a", "/", "a">>, <<"a", "/", "a", "/", "b">> >>

DeepPaths == {DeepSeq[i] : i \in 1..Len(DeepSeq)}

DeepTrees ==
    {t \in [DeepPaths -> Entries] :
        \A p \in DeepPaths :
           (t[p] # Absent /\ Parent(p) # <<>>) => t[Parent(p)].kind = "dir"}

\* A directory listing in ascending and in descending order of names.
DeepOrders ==
    {DeepSeq, [i \in 1..Len(DeepSeq) |-> DeepSeq[Len(DeepSeq) + 1 - i]]}

InitWalk ==
    /\ client_path = RootDir
    /\ local \in DeepTrees
    /\ remote = [p \in Paths |-> Absent]
    /\ queue = <<>>
    /\ pc = "start"
    /\ observer = "none"
    /\ last = NoResult
    /\ nmut = 0
    /\ insync = FALSE
    /\ issued = <<>>
    /\ synced = FALSE

\* for root, dirs, files in walk(client_path): the commands in the order
\* in which the loop reaches them.
WalkOnly ==
    /\ pc = "start"
    /\ \E ord \in DeepOrders : issued' = Walk(local, client_path, ord)
    /\ pc' = "synced"
    /\ UNCHANGED <<client_path, local, remote, queue, observer, last, nmut,
                   insync, synced>>

SpecWalk == InitWalk /\ [][WalkOnly]_vars

\* C19 (top-down creation during reconciliation): in the commands of
\* initial_sync, the MKD of a directory comes before every command of a
\* path below the directory, and every local directory has its MKD.
C19_TopDownCreation ==
    pc = "synced"
    => /\ \A i, j \in 1..Len(issued) :
             ( /\ issued[i].op = "MKD"
               /\ issued[j].path # issued[i].path
               /\ IsUnder(issued[j].path, issued[i].path) )
             => i < j
       /\ \A p \in DOMAIN local :
             local[p] # Absent
             => \E j \in 1..Len(issued) :
                   /\ issued[j].path = p
                   /\ issued[j].op = IF local[p].kind = "dir" THEN "MKD"
                                     ELSE "STOR"

\* The walk of a tree three levels deep has issued the MKD of a directory,
\* the MKD of a directory in it, and then a command of a path in that one.
C19_Witness ==
    /\ pc = "synced"
    /\ \E i, j, k \in 1..Len(issued) :
          /\ i < j /\ j < k
          /\ issued[i].op = "MKD" /\ issued[j].op = "MKD"
          /\ Parent(issued[j].path) = issued[i].path
          /\ Parent(issued[k].path) = issued[j].path

\* ------------------------------------------------- forms of the root argument
\* The client started with either form of argv[-1]: os.walk and watchdog
\* report the paths below it by os.path.join, which adds no separator to a
\* root that ends in one.

InitPaths == \E root \in RootForms : Started(root)

SpecPaths == InitPaths /\ [][Next]_vars

\* path is the local path full relative to the root directory.
Normalised(path, full) == path # <<>> /\ path = Resolve(full)

\* C20 (path normalisation): every path initial_sync or a handler passed
\* to a remote command is not empty and is the local path it stands for
\* with the root directory and one separator removed, whichever form the
\* root argument has.
C20_PathNormalisation ==
    /\ \A i \in 1..Len(issued) : Normalised(issued[i].path, issued[i].full)
    /\ \A i \in 1..Len(last.sent) :
          LET c == last.sent[i]
          IN  IF c.op = "RENAME"
              THEN /\ Normalised(c.path, last.event.src_path)
                   /\ Normalised(c.to, last.event.dest_path)
              ELSE IF c.op = "SIZE"
              THEN Normalised(c.path, last.event.dest_path)
              ELSE Normalised(c.path, last.event.src_path)

====
